---- MODULE Spec2Model ----
(***************************************************************************)
(* Model of the zero_cam synchronisation component (src/sync.py).          *)
(*                                                                         *)
(* One DropboxSync object is bound to one local directory (local_dir) and  *)
(* the remote location that directory resolves to.  The state is the       *)
(* object's flags, the files of the local directory, the files of the      *)
(* remote location, and a record of the last sync_directory invocation.    *)
(* A sync_directory invocation is one action; the outcomes of the external *)
(* tool calls it makes (exit zero, exit non-zero, timeout) are its inputs. *)
(*                                                                         *)
(* Directory paths are sequences of one-character strings, so that         *)
(* str.startswith and os.path.relpath are computed as Python computes      *)
(* them.  File paths inside a directory are TLA+ strings.                  *)
(*                                                                         *)
(* External tool (rclone) as used by the code:                             *)
(*   lsf -R   lists the files of the remote location;                      *)
(*   copy     adds every file of the source to the destination (exit 0);   *)
(*   sync     makes the destination equal to the source (exit 0);          *)
(*   deletefile removes one remote file (exit 0) or nothing (otherwise).   *)
(***************************************************************************)
EXTENDS Integers, Sequences, FiniteSets, TLC

\* DropboxSync and the two sides it reconciles (sync.py)
VARIABLES local_dir, dir_exists, local, remote, bidirectional, sync_logs, ev, last,
          construction

syncVars == <<local_dir, dir_exists, local, remote, bidirectional, sync_logs, ev, last,
              construction>>

\* Camera (camera.py): its two fields, the last call made on it, and what
\* happened since the counter was last set to zero
VARIABLES capture_count, captures_before_sync, cam, since_reset

camVars == <<capture_count, captures_before_sync, cam, since_reset>>

\* main (main.py): the position in main, the two module globals, the handler
\* registered for SIGINT and SIGTERM, the countdown of the safe-mode delay, the
\* configuration, whether a camera is attached, the value main returned, and
\* records of the run and of the current loop iteration
VARIABLES pc, running, safe_mode_interrupted, handler, remaining, config,
          camera_attached, exit_code, run, it

mainVars == <<pc, running, safe_mode_interrupted, handler, remaining, config,
              camera_attached, exit_code, run, it>>

\* FileManager.is_date_format (file_manager.py): the name it is given and the
\* value it returned
VARIABLES dirname, is_date

dateVars == <<dirname, is_date>>

\* FileManager (file_manager.py): the date of the day, the configured
\* retention and free-space threshold, the dated subdirectories of the live
\* and of the archive tree with their files (as <<directory, file>> pairs),
\* and the last call made on the object
VARIABLES today, archive_retention_days, min_free_space_mb, live_dirs,
          live_files, archive, archive_files, fm

fmVars == <<today, archive_retention_days, min_free_space_mb, live_dirs,
            live_files, archive, archive_files, fm>>

\* load_config (main.py): the content of config.json and the configuration
\* returned (none before the call)
VARIABLES config_file, loaded

cfgVars == <<config_file, loaded>>

vars == <<syncVars, camVars, mainVars, dateVars, fmVars, cfgVars>>

\* what the calls on one component leave alone
notSync == <<camVars, mainVars, dateVars, fmVars, cfgVars>>
notCamera == <<syncVars, mainVars, dateVars, fmVars, cfgVars>>
notMain == <<syncVars, cam, since_reset, captures_before_sync, dateVars, fmVars,
             cfgVars>>
notDate == <<syncVars, camVars, mainVars, fmVars, cfgVars>>
notFileManager == <<syncVars, camVars, mainVars, dateVars, cfgVars>>
notConfig == <<syncVars, camVars, mainVars, dateVars, fmVars>>

(***************************************************************************)
(* Bounds and universes                                                    *)
(***************************************************************************)
NumFiles == 2

FileName(i) ==
    CASE i = 1 -> "a.jpg"
      [] i = 2 -> "b.jpg"
      [] i = 3 -> "c.jpg"
      [] i = 4 -> "d.jpg"
      [] OTHER -> "e.jpg"

Placeholder == ".pi_cam_sync_placeholder"

ImageFiles == {FileName(i) : i \in 1..NumFiles}

Files == ImageFiles \cup {Placeholder}

\* how a tool call ends: exit zero, a non-zero exit, or subprocess.run raising
\* (TimeoutExpired, or FileNotFoundError when the binary is missing: both are
\* taken by the same "except Exception" clauses)
Outcome == {"ok", "fail", "timeout"}

(***************************************************************************)
(* Paths: str.startswith, os.path.relpath                                  *)
(***************************************************************************)
Sep == "/"

current_dir == <<"/", "c">>

logs_dir == <<"/", "l">>

remote_name == <<"r">>

remote_path == <<"p">>

Dirs ==
    { <<"/", "c">>,
      <<"/", "c", "/", "d">>,
      <<"/", "c", "x">>,
      <<"/", "l">>,
      <<"/", "l", "/", "s">>,
      <<"/", "o">> }

StartsWith(s, p) ==
    /\ Len(s) >= Len(p)
    /\ SubSeq(s, 1, Len(p)) = p

\* the components of a path: "/c/d" -> << <<"c">>, <<"d">> >>
RECURSIVE SplitAcc(_, _, _)
SplitAcc(s, cur, acc) ==
    IF s = <<>>
       THEN IF cur = <<>> THEN acc ELSE Append(acc, cur)
    ELSE IF Head(s) = Sep
       THEN SplitAcc(Tail(s), <<>>, IF cur = <<>> THEN acc ELSE Append(acc, cur))
    ELSE SplitAcc(Tail(s), Append(cur, Head(s)), acc)

Components(s) == SplitAcc(s, <<>>, <<>>)

RECURSIVE CommonPrefixLen(_, _)
CommonPrefixLen(a, b) ==
    IF a = <<>> \/ b = <<>> \/ Head(a) # Head(b) THEN 0
    ELSE 1 + CommonPrefixLen(Tail(a), Tail(b))

RECURSIVE JoinPath(_)
JoinPath(cs) ==
    IF cs = <<>> THEN <<>>
    ELSE IF Len(cs) = 1 THEN Head(cs)
    ELSE Head(cs) \o <<Sep>> \o JoinPath(Tail(cs))

\* os.path.relpath(path, start) on absolute POSIX paths
relpath(path, start) ==
    LET pl == Components(path)
        sl == Components(start)
        i  == CommonPrefixLen(sl, pl)
        ups == [k \in 1..(Len(sl) - i) |-> <<".", ".">>]
        rel == ups \o SubSeq(pl, i + 1, Len(pl))
    IN IF rel = <<>> THEN <<".">> ELSE JoinPath(rel)

Unrecognized == <<"?">>

Logs == <<"l", "o", "g", "s">>

RemoteBase == remote_name \o <<":">> \o remote_path

\* sync.py 114-136: the remote target of a local directory, or Unrecognized
ResolveRemoteDir(d, slogs) ==
    IF StartsWith(d, current_dir)
       THEN IF d = current_dir
               THEN RemoteBase
               ELSE RemoteBase \o <<Sep>> \o relpath(d, current_dir)
    ELSE IF StartsWith(d, logs_dir) /\ slogs
       THEN IF d = logs_dir
               THEN RemoteBase \o <<Sep>> \o Logs
               ELSE RemoteBase \o <<Sep>> \o Logs \o <<Sep>> \o relpath(d, logs_dir)
    ELSE Unrecognized

(***************************************************************************)
(* External tool calls                                                     *)
(***************************************************************************)
Call(op, file, out) == [op |-> op, file |-> file, out |-> out]

\* rclone copy local remote: the remote afterwards.  A failed upload is taken
\* to have transferred nothing: the code never reads the remote after it.
UploadResults(src, dst, o) ==
    IF o = "ok" THEN {dst \cup src} ELSE {dst}

\* rclone copy remote local: the possible local directory afterwards.  A failed
\* download may have transferred any part of the missing files.
DownloadResults(src, dst, o) ==
    IF o = "ok" THEN {dst \cup src}
    ELSE {dst \cup p : p \in SUBSET (src \ dst)}

\* mutant: the mirror call replaced by a copy, which removes nothing
SyncResultsAsCopy(src, dst, o) ==
    IF o = "ok" THEN {dst \cup src} ELSE {dst}

\* rclone sync local remote: the remote afterwards (a failed mirror is taken to
\* have changed nothing)
SyncResults(src, dst, o) ==
    IF o = "ok" THEN {src} ELSE {dst}

\* rclone deletefile: the remote afterwards
DeleteFileResult(rem, f, o) == IF o = "ok" THEN rem \ {f} ELSE rem

(***************************************************************************)
(* DropboxSync._one_way_sync (sync.py 151-178)                             *)
(***************************************************************************)
\* mutant: the one-way sync reports failure whatever the tool did
OneWayResultFalse(o) == FALSE

\* 162-168 and 170-178: True on exit zero, False on a non-zero exit and on a
\* raised call
OneWayResult(o) == o = "ok"

OneWaySync(c) ==
    UNION {{[c EXCEPT !.remote = r,
                      !.calls = Append(@, Call("sync", "", o)),
                      !.one_way = TRUE,
                      !.result = OneWayResult(o)]
              : r \in SyncResults(c.local, c.remote, o)}
            : o \in Outcome}

(***************************************************************************)
(* DropboxSync._bidirectional_copy_approach (sync.py 180-303)              *)
(***************************************************************************)
\* file.startswith('.pi_cam_sync_placeholder')
IsPlaceholder(f) == f = Placeholder

\* os.walk of the local directory, placeholders skipped (188-197, 256-265)
WalkLocalFiles(loc) == {f \in loc : ~IsPlaceholder(f)}

\* the parsed output of rclone lsf -R (209)
ListRemoteFiles(rem) == rem

NeedToUpload(local_files, remote_files) == local_files \ remote_files

NeedToDownload(local_files, remote_files) == remote_files \ local_files

ToDeleteRemotely(remote_files, new_local_files) == remote_files \ new_local_files

\* mutant: the handler logs the error and returns without the one-way sync
FallbackSkipped(c) == {[c EXCEPT !.fallback = "except", !.result = FALSE]}

\* except Exception (300-303): fall back to one-way sync
Fallback(c) == OneWaySync([c EXCEPT !.fallback = "except"])

\* listing failed (210-213): one-way sync
ListingFailed(c) == OneWaySync([c EXCEPT !.fallback = "listing"])

\* for file in to_delete_remotely (276-290), in the set's iteration order; a
\* raised call leaves the loop (294)
RECURSIVE DeleteLoop(_, _, _)
DeleteLoop(rem, calls, todo) ==
    IF todo = {} THEN {[remote |-> rem, calls |-> calls]}
    ELSE UNION {UNION {
           LET cs == Append(calls, Call("deletefile", f, o))
           IN IF o = "timeout"
                 THEN {[remote |-> rem, calls |-> cs]}
                 ELSE DeleteLoop(DeleteFileResult(rem, f, o), cs, todo \ {f})
           : o \in Outcome}
           : f \in todo}

\* Step 7 (253-298)
ReconcileDelete(c, remote_files) ==
    IF c.need_to_download # {} /\ remote_files # {}
       THEN LET new_local_files == WalkLocalFiles(c.local)
                del == ToDeleteRemotely(remote_files, new_local_files)
            IN {[c EXCEPT !.remote = r.remote,
                          !.calls = r.calls,
                          !.to_delete_remotely = del,
                          !.result = TRUE]
                 : r \in DeleteLoop(c.remote, c.calls, del)}
       ELSE {[c EXCEPT !.result = TRUE]}

\* Step 6 (236-251)
Download(c, remote_files) ==
    IF c.need_to_download # {}
       THEN UNION {UNION {
              LET c1 == [c EXCEPT !.local = l,
                                  !.calls = Append(@, Call("copy_down", "", o))]
              IN IF o = "timeout" THEN Fallback(c1)
                                  ELSE ReconcileDelete(c1, remote_files)
              : l \in DownloadResults(c.remote, c.local, o)}
              : o \in Outcome}
       ELSE ReconcileDelete(c, remote_files)

\* Step 5 (219-234)
Upload(c, remote_files) ==
    IF c.need_to_upload # {}
       THEN UNION {UNION {
              LET c1 == [c EXCEPT !.remote = r,
                                  !.calls = Append(@, Call("copy_up", "", o))]
              IN IF o = "timeout" THEN Fallback(c1)
                                  ELSE Download(c1, remote_files)
              : r \in UploadResults(c.local, c.remote, o)}
              : o \in Outcome}
       ELSE Download(c, remote_files)

\* Step 4 (215-217)
Diff(c, local_files, remote_files) ==
    Upload([c EXCEPT !.need_to_upload = NeedToUpload(local_files, remote_files),
                     !.need_to_download = NeedToDownload(local_files, remote_files)],
           remote_files)

\* Step 3 (199-213)
ListRemote(c, local_files) ==
    UNION {
      LET c1 == [c EXCEPT !.calls = Append(@, Call("lsf", "", o))]
      IN CASE o = "ok"      -> Diff(c1, local_files, ListRemoteFiles(c.remote))
           [] o = "fail"    -> ListingFailed(c1)
           [] o = "timeout" -> Fallback(c1)
      : o \in Outcome}

\* Steps 1-2 (185-197)
BidirectionalCopyApproach(c) ==
    UNION {
      IF w = "raise"
         THEN Fallback([c EXCEPT !.walk_raised = TRUE])
         ELSE ListRemote(c, WalkLocalFiles(c.local))
      : w \in {"ok", "raise"}}

(***************************************************************************)
(* DropboxSync.sync_directory (sync.py 106-149)                            *)
(***************************************************************************)
Blank(ex, loc, rem) ==
    [exists |-> ex, local |-> loc, remote |-> rem, calls |-> <<>>,
     need_to_upload |-> {}, need_to_download |-> {}, to_delete_remotely |-> {},
     walk_raised |-> FALSE, fallback |-> "none", one_way |-> FALSE,
     result |-> TRUE, mode |-> "none", remote_dir |-> Unrecognized]

\* _ensure_directory_not_empty (88-104): creates a missing directory; "ok"
\* writes the placeholder into an empty directory, "wfail" is open() failing
\* (caught, 101-103)
EnsureDirectoryNotEmpty(c, e) ==
    [c EXCEPT !.exists = TRUE,
              !.local = IF c.local = {} /\ e = "ok" THEN {Placeholder} ELSE c.local]

\* "raise": os.listdir raises, caught by sync_directory (147-149)
EnsureOutcomes(loc) == IF loc = {} THEN {"ok", "wfail", "raise"} ELSE {"ok", "raise"}

\* mutant: the existence check is gone
SkipMissingNever(ex) == FALSE

\* if not os.path.exists(local_dir) (110)
SkipMissing(ex) == ~ex

SyncDirectory(d, ex, loc, rem, bidir, slogs) ==
    IF SkipMissing(ex)
       THEN {[Blank(ex, loc, rem) EXCEPT !.mode = "missing"]}
    ELSE LET rd == ResolveRemoteDir(d, slogs) IN
    IF rd = Unrecognized
       THEN {[Blank(ex, loc, rem) EXCEPT !.mode = "unrecognized"]}
    ELSE UNION {
           IF e = "raise"
              THEN {[Blank(TRUE, loc, rem) EXCEPT !.mode = "error", !.remote_dir = rd,
                                                  !.result = FALSE]}
              ELSE LET c == [EnsureDirectoryNotEmpty(Blank(ex, loc, rem), e)
                               EXCEPT !.remote_dir = rd,
                                      !.mode = IF bidir THEN "bidirectional"
                                                        ELSE "one_way"]
                   IN IF bidir THEN BidirectionalCopyApproach(c)
                               ELSE OneWaySync(c)
           : e \in EnsureOutcomes(loc)}

(***************************************************************************)
(* Camera (camera.py)                                                      *)
(***************************************************************************)
\* the largest threshold tried; a run makes up to one capture more than that
MaxCaptures == 3

\* config.get('captures', 3) (camera.py 23)
DefaultCaptures == 3

\* def get_image_filename(self) (28): it has no parameter besides self
GetImageFilenameParams == {}

\* self.get_image_filename(temp=True) (40): the keywords of the call
CaptureImageKeywords == {"temp"}

\* a call passing a keyword the function does not declare raises TypeError
RaisesTypeError(keywords, params) == ~(keywords \subseteq params)

\* capture_image (36-86) with the count before, the capture tool's outcome
\* and whether the tool leaves the output file; "invoked" tells whether
\* subprocess.run (62) was reached
CaptureImage(count, tool, file) ==
    IF RaisesTypeError(CaptureImageKeywords, GetImageFilenameParams)
       THEN [ret |-> "None", count |-> count, invoked |-> FALSE]      \* 84-86
    ELSE IF tool = "timeout"
       THEN [ret |-> "None", count |-> count, invoked |-> TRUE]       \* 81-83
    ELSE IF tool # "ok"
       THEN [ret |-> "None", count |-> count, invoked |-> TRUE]       \* 64-66
    ELSE IF ~file
       THEN [ret |-> "None", count |-> count, invoked |-> TRUE]       \* 69-71
    ELSE [ret |-> "path", count |-> count + 1, invoked |-> TRUE]      \* 77-79

\* mutant: the comparison is strict
ShouldSyncStrict(count, threshold) == count > threshold

\* should_sync (88-90)
ShouldSync(count, threshold) == count >= threshold

\* reset_capture_count (92-94)
ResetCaptureCount(count) == 0

\* what the capture tool does when run: its exit and the file it leaves
ToolRuns == {<<"ok", TRUE>>, <<"ok", FALSE>>, <<"fail", FALSE>>, <<"timeout", FALSE>>}

PyBool(b) == IF b THEN "True" ELSE "False"

CameraCall(op, tool, file, ret, pre, invoked) ==
    [op |-> op, tool |-> tool, file |-> file, ret |-> ret, pre_count |-> pre,
     invoked |-> invoked]

NoCameraCall == CameraCall("none", "none", FALSE, "none", 0, FALSE)

\* since the counter was last zeroed: capture_image calls made, calls that
\* returned a path, and whether the tool succeeded in each of them
Fresh == [captures |-> 0, successes |-> 0, all_ok |-> TRUE]

CameraAtRest ==
    /\ capture_count = 0
    /\ captures_before_sync = DefaultCaptures
    /\ cam = NoCameraCall
    /\ since_reset = Fresh

\* Camera.__init__ (18-26), the threshold read from the configuration
CameraInit ==
    /\ capture_count = 0
    /\ captures_before_sync \in 0..MaxCaptures
    /\ cam = NoCameraCall
    /\ since_reset = Fresh

CaptureImageCall ==
    /\ since_reset.captures <= MaxCaptures
    /\ \E t \in ToolRuns :
         LET r == CaptureImage(capture_count, t[1], t[2]) IN
         /\ capture_count' = r.count
         /\ cam' = CameraCall("capture_image", t[1], t[2], r.ret, capture_count,
                              r.invoked)
         /\ since_reset' =
               [captures |-> since_reset.captures + 1,
                successes |-> since_reset.successes + (IF r.ret = "path" THEN 1 ELSE 0),
                all_ok |-> since_reset.all_ok /\ t[1] = "ok" /\ t[2]]
    /\ UNCHANGED captures_before_sync
    /\ UNCHANGED notCamera

ShouldSyncCall ==
    /\ cam' = CameraCall("should_sync", "none", FALSE,
                         PyBool(ShouldSync(capture_count, captures_before_sync)),
                         capture_count, FALSE)
    /\ UNCHANGED <<capture_count, captures_before_sync, since_reset>>
    /\ UNCHANGED notCamera

ResetCaptureCountCall ==
    /\ capture_count' = ResetCaptureCount(capture_count)
    /\ cam' = CameraCall("reset_capture_count", "none", FALSE, "None",
                         capture_count, FALSE)
    /\ since_reset' = Fresh
    /\ UNCHANGED captures_before_sync
    /\ UNCHANGED notCamera

(***************************************************************************)
(* main: start-up (main.py 145-293)                                        *)
(***************************************************************************)
\* the longest safe-mode delay tried, in seconds
MaxDelay == 3

\* def __init__(self, config, current_dir, logs_dir) (sync.py 20): the
\* parameters besides self
DropboxSyncInitParams == 3

\* DropboxSync(config, TEMP_DIR, ARCHIVE_DIR, LOGS_DIR) (main.py 278): the
\* positional arguments of the call
DropboxSyncCallArgs == 4

\* a call passing more positional arguments than the callee declares raises
\* TypeError
AcceptsPositional(nargs, nparams) == nargs <= nparams

Config(enabled, delay, on_shutdown, logs) ==
    [enabled |-> enabled, delay_seconds |-> delay, sync_on_shutdown |-> on_shutdown,
     sync_logs |-> logs]

NoRun ==
    [delay |-> "none", sleeps |-> 0, signal_in_delay |-> FALSE,
     slept_after_signal |-> FALSE, signal_at |-> "none", fault |-> FALSE,
     tool_fault |-> FALSE, caught |-> FALSE, final_net |-> "none",
     final_sync |-> "none", final_logs |-> "none"]

NoIteration ==
    [image |-> "none", should |-> "none", net |-> "none", sync |-> "none",
     logs |-> "none", reset |-> FALSE, raised |-> FALSE, count |-> 0]

MainAtRest ==
    /\ pc = "off"
    /\ running = TRUE
    /\ safe_mode_interrupted = FALSE
    /\ handler = "default"
    /\ remaining = 0
    /\ config = Config(TRUE, 0, TRUE, TRUE)
    /\ camera_attached = TRUE
    /\ exit_code = <<>>
    /\ run = NoRun
    /\ it = NoIteration

\* return <code> from main
ReturnFromMain(code) ==
    /\ pc' = "returned"
    /\ exit_code' = <<code>>

\* mutant: the countdown never looks at the flag
InterruptedNever(flag) == FALSE

\* if safe_mode_interrupted (195)
Interrupted(flag) == flag

\* main 247-249 calling safe_mode_delay, up to the countdown (163-190)
SafeModeBegin ==
    /\ pc = "start"
    /\ IF ~config.enabled
          THEN /\ pc' = "after_delay"                                 \* 166-168
               /\ run' = [run EXCEPT !.delay = "True"]
               /\ UNCHANGED <<handler, remaining>>
          ELSE /\ pc' = "delay_check"
               /\ remaining' = config.delay_seconds                   \* 170, 194
               /\ handler' = "safe_mode"                              \* 189-190
               /\ UNCHANGED run
    /\ UNCHANGED <<running, safe_mode_interrupted, config, camera_attached,
                   exit_code, it>>
    /\ UNCHANGED <<capture_count, notMain>>

\* one pass of the countdown up to its sleep (194-203); on the flag
\* safe_mode_delay returns False (198) and main returns 0 (249-251)
DelayCheck ==
    /\ pc = "delay_check"
    /\ IF remaining = 0
          THEN /\ pc' = "delay_end"
               /\ UNCHANGED <<exit_code, run>>
          ELSE IF Interrupted(safe_mode_interrupted)
          THEN /\ ReturnFromMain(0)
               /\ run' = [run EXCEPT !.delay = "False"]
          ELSE /\ pc' = "delay_sleep"
               /\ run' = [run EXCEPT !.sleeps = @ + 1,
                                     !.slept_after_signal = @ \/ safe_mode_interrupted]
               /\ UNCHANGED exit_code
    /\ UNCHANGED <<running, safe_mode_interrupted, handler, remaining, config,
                   camera_attached, it>>
    /\ UNCHANGED <<capture_count, notMain>>

\* time.sleep(1) ends (205); "raise" is an exception inside the try block,
\* after which the handlers are restored and False is returned (215-220)
DelaySleep ==
    /\ pc = "delay_sleep"
    /\ \E o \in {"ok", "raise"} :
         IF o = "ok"
            THEN /\ remaining' = remaining - 1
                 /\ pc' = "delay_check"
                 /\ UNCHANGED <<handler, exit_code, run>>
            ELSE /\ handler' = "default"
                 /\ ReturnFromMain(0)
                 /\ run' = [run EXCEPT !.delay = "False", !.tool_fault = TRUE]
                 /\ UNCHANGED remaining
    /\ UNCHANGED <<running, safe_mode_interrupted, config, camera_attached, it>>
    /\ UNCHANGED <<capture_count, notMain>>

\* the countdown has run out: handlers restored, True returned (208-213)
DelayEnd ==
    /\ pc = "delay_end"
    /\ handler' = "default"
    /\ run' = [run EXCEPT !.delay = "True"]
    /\ pc' = "after_delay"
    /\ UNCHANGED <<running, safe_mode_interrupted, remaining, config,
                   camera_attached, exit_code, it>>
    /\ UNCHANGED <<capture_count, notMain>>

\* main 254-256
AfterDelay ==
    /\ pc = "after_delay"
    /\ IF safe_mode_interrupted
          THEN ReturnFromMain(0)
          ELSE pc' = "setup" /\ UNCHANGED exit_code
    /\ UNCHANGED <<running, safe_mode_interrupted, handler, remaining, config,
                   camera_attached, run, it>>
    /\ UNCHANGED <<capture_count, notMain>>

\* main 258-272: the directories are made and the shutdown handler is
\* registered; os.makedirs raising is caught at 363-366
Setup ==
    /\ pc = "setup"
    /\ \E o \in {"ok", "raise"} :
         IF o = "ok"
            THEN /\ handler' = "shutdown"
                 /\ pc' = "components"
                 /\ UNCHANGED <<exit_code, run>>
            ELSE /\ ReturnFromMain(1)
                 /\ run' = [run EXCEPT !.fault = TRUE, !.tool_fault = TRUE]
                 /\ UNCHANGED handler
    /\ UNCHANGED <<running, safe_mode_interrupted, remaining, config,
                   camera_attached, it>>
    /\ UNCHANGED <<capture_count, notMain>>

\* main 277-279: Camera(...) may fail in os.makedirs (camera.py 26);
\* DropboxSync(...) raises TypeError unless the callee takes the arguments
\* passed; either exception is caught at 363-366
InitComponents ==
    /\ pc = "components"
    /\ \E o \in {"ok", "raise"} :
         IF o = "raise"
            THEN /\ ReturnFromMain(1)
                 /\ run' = [run EXCEPT !.fault = TRUE, !.tool_fault = TRUE]
         ELSE IF ~AcceptsPositional(DropboxSyncCallArgs, DropboxSyncInitParams)
            THEN /\ ReturnFromMain(1)
                 /\ run' = [run EXCEPT !.fault = TRUE]
            ELSE /\ pc' = "check_camera"
                 /\ UNCHANGED <<exit_code, run>>
    /\ UNCHANGED <<running, safe_mode_interrupted, handler, remaining, config,
                   camera_attached, it>>
    /\ UNCHANGED <<capture_count, notMain>>

\* the positions of main inside the safe-mode delay, handlers installed
InDelay == {"delay_check", "delay_sleep", "delay_end"}

\* SIGINT or SIGTERM is delivered.  Under safe_mode_signal_handler (152-156)
\* and signal_handler (145-150) the flags are set; under the default
\* disposition SIGTERM ends the process and SIGINT raises KeyboardInterrupt,
\* which no "except Exception" catches, so main does not return
Signal ==
    /\ pc \notin {"off", "returned", "killed"}
    /\ CASE handler = "safe_mode" ->
              /\ safe_mode_interrupted' = TRUE
              /\ UNCHANGED <<running, pc>>
         [] handler = "shutdown" ->
              /\ running' = FALSE
              /\ safe_mode_interrupted' = TRUE
              /\ UNCHANGED pc
         [] OTHER ->
              /\ pc' = "killed"
              /\ UNCHANGED <<running, safe_mode_interrupted>>
    /\ run' = [run EXCEPT !.signal_in_delay = @ \/ pc \in InDelay,
                          !.signal_at = IF @ = "none" THEN pc ELSE @]
    /\ UNCHANGED <<handler, remaining, config, camera_attached, exit_code, it>>
    /\ UNCHANGED <<capture_count, notMain>>

(***************************************************************************)
(* main: the capture loop and the shutdown (main.py 296-361)               *)
(***************************************************************************)
\* sync.sync_temp_and_move() (319, 351): a success flag, or an exception
SyncTempAndMove == {"True", "False", "raise"}

\* sync.sync_logs_directory() (329, 353): it returns, or raises
SyncLogsDirectory == {"done", "raise"}

\* mutant: the loop goes on whatever the flag
WhileRunningAlways(r) == TRUE

\* while running (296)
WhileRunning(r) == r

\* if camera.should_sync() or image_path is None (314)
SyncWanted(should, image) == should \/ image = "None"

\* mutant: the sync is tried whatever the network check says
ReachableAlways(n) == TRUE

\* if check_network_status() (316, 349)
Reachable(n) == n

\* mutant: the counter is reset whatever the sync reports
SyncSucceededAlways(o) == TRUE

\* if sync_success (321)
SyncSucceeded(o) == o = "True"

\* mutant: no wait after an exception
CoolsDownNever(r) == FALSE

\* if running: time.sleep(5) (342-343)
CoolsDown(r) == r

\* the positions of main inside an iteration of the loop
InIteration == {"date", "capture", "network", "sync", "logs", "sleep",
                "sleeping", "except", "cooldown"}

\* what no step of the loop changes
loopFrame == <<handler, remaining, config, camera_attached, notMain>>

\* while running (296): a new iteration begins, or the loop is left
LoopTest ==
    /\ pc = "loop_test"
    /\ IF WhileRunning(running)
          THEN /\ pc' = "date"
               /\ it' = [NoIteration EXCEPT !.count = capture_count]
          ELSE /\ pc' = "final"
               /\ UNCHANGED it
    /\ UNCHANGED <<running, safe_mode_interrupted, exit_code, run, capture_count,
                   loopFrame>>

\* 298-308: on a change of date ensure_today_dir (os.makedirs may raise) and
\* run_daily_maintenance, then check_disk_space; the last two catch their own
\* exceptions and their values are only logged
DateCheck ==
    /\ pc = "date"
    /\ \E o \in {"same", "changed", "raise"} :
         IF o = "raise"
            THEN pc' = "except" /\ it' = [it EXCEPT !.raised = TRUE]
            ELSE pc' = "capture" /\ UNCHANGED it
    /\ UNCHANGED <<running, safe_mode_interrupted, exit_code, run, capture_count,
                   loopFrame>>

\* image_path = camera.capture_image() (311)
Capture ==
    /\ pc = "capture"
    /\ \E t \in ToolRuns :
         LET r == CaptureImage(capture_count, t[1], t[2]) IN
         /\ capture_count' = r.count
         /\ it' = [it EXCEPT !.image = r.ret, !.count = r.count]
    /\ pc' = "network"
    /\ UNCHANGED <<running, safe_mode_interrupted, exit_code, run, loopFrame>>

\* 314-316, 330-331: whether a sync is wanted, and if so the network check
Network ==
    /\ pc = "network"
    /\ LET should == ShouldSync(capture_count, captures_before_sync) IN
       IF SyncWanted(should, it.image)
          THEN \E n \in BOOLEAN :
                 /\ it' = [it EXCEPT !.should = PyBool(should), !.net = PyBool(n)]
                 /\ pc' = IF Reachable(n) THEN "sync" ELSE "sleep"
          ELSE /\ it' = [it EXCEPT !.should = PyBool(should)]
               /\ pc' = "sleep"
    /\ UNCHANGED <<running, safe_mode_interrupted, exit_code, run, capture_count,
                   loopFrame>>

\* 319-325: the sync, and the reset of the counter when it reports success
SyncStep ==
    /\ pc = "sync"
    /\ \E o \in SyncTempAndMove :
         IF o = "raise"
            THEN /\ it' = [it EXCEPT !.sync = o, !.raised = TRUE]
                 /\ pc' = "except"
                 /\ UNCHANGED capture_count
         ELSE IF SyncSucceeded(o)
            THEN /\ capture_count' = ResetCaptureCount(capture_count)
                 /\ it' = [it EXCEPT !.sync = o, !.reset = TRUE]
                 /\ pc' = "logs"
            ELSE /\ it' = [it EXCEPT !.sync = o]
                 /\ pc' = "logs"
                 /\ UNCHANGED capture_count
    /\ UNCHANGED <<running, safe_mode_interrupted, exit_code, run, loopFrame>>

\* 327-329: the logs are synced when the configuration says so
LogsStep ==
    /\ pc = "logs"
    /\ IF config.sync_logs
          THEN \E o \in SyncLogsDirectory :
                 /\ it' = [it EXCEPT !.logs = o, !.raised = (o = "raise")]
                 /\ pc' = IF o = "raise" THEN "except" ELSE "sleep"
          ELSE pc' = "sleep" /\ UNCHANGED it
    /\ UNCHANGED <<running, safe_mode_interrupted, exit_code, run, capture_count,
                   loopFrame>>

\* if running: time.sleep(interval) (334-335)
SleepStep ==
    /\ pc = "sleep"
    /\ pc' = IF running THEN "sleeping" ELSE "loop_test"
    /\ UNCHANGED <<running, safe_mode_interrupted, exit_code, run, it,
                   capture_count, loopFrame>>

\* time.sleep(interval) ends
Wake ==
    /\ pc = "sleeping"
    /\ pc' = "loop_test"
    /\ UNCHANGED <<running, safe_mode_interrupted, exit_code, run, it,
                   capture_count, loopFrame>>

\* except Exception (337-343): logged, then the wait before retrying
Except ==
    /\ pc = "except"
    /\ run' = [run EXCEPT !.caught = TRUE]
    /\ pc' = IF CoolsDown(running) THEN "cooldown" ELSE "loop_test"
    /\ UNCHANGED <<running, safe_mode_interrupted, exit_code, it, capture_count,
                   loopFrame>>

\* time.sleep(5) ends
CooldownEnd ==
    /\ pc = "cooldown"
    /\ pc' = "loop_test"
    /\ UNCHANGED <<running, safe_mode_interrupted, exit_code, run, it,
                   capture_count, loopFrame>>

\* 345-349, 354-361: the loop is left; the network check of the final sync
Final ==
    /\ pc = "final"
    /\ IF config.sync_on_shutdown
          THEN \E n \in BOOLEAN :
                 /\ run' = [run EXCEPT !.final_net = PyBool(n)]
                 /\ IF Reachable(n)
                       THEN pc' = "final_sync" /\ UNCHANGED exit_code
                       ELSE ReturnFromMain(0)
          ELSE ReturnFromMain(0) /\ UNCHANGED run
    /\ UNCHANGED <<running, safe_mode_interrupted, it, capture_count, loopFrame>>

\* 350-361: the final sync of images and logs; an exception is caught (356)
FinalSync ==
    /\ pc = "final_sync"
    /\ \E o \in SyncTempAndMove :
         IF o # "raise" /\ config.sync_logs
            THEN \E l \in SyncLogsDirectory :
                   run' = [run EXCEPT !.final_sync = o, !.final_logs = l]
            ELSE run' = [run EXCEPT !.final_sync = o]
    /\ ReturnFromMain(0)
    /\ UNCHANGED <<running, safe_mode_interrupted, it, capture_count, loopFrame>>

(***************************************************************************)
(* FileManager.is_date_format (file_manager.py 41-47)                      *)
(***************************************************************************)
\* names are sequences of one-character strings
Digits == {"0", "1", "2", "3", "4", "5", "6", "7", "8", "9"}

DigitValue(c) ==
    CASE c = "0" -> 0 [] c = "1" -> 1 [] c = "2" -> 2 [] c = "3" -> 3
      [] c = "4" -> 4 [] c = "5" -> 5 [] c = "6" -> 6 [] c = "7" -> 7
      [] c = "8" -> 8 [] c = "9" -> 9 [] OTHER -> 0

RECURSIVE Number(_)
\* int() of a group of digits; a leading blank counts as nothing
Number(ds) ==
    IF ds = <<>> THEN 0
    ELSE 10 * Number(SubSeq(ds, 1, Len(ds) - 1)) + DigitValue(ds[Len(ds)])

\* the directive %Y of strptime: exactly four digits
MatchesYear(ds) == Len(ds) = 4 /\ \A i \in 1..4 : ds[i] \in Digits

\* the directive %m: 1[0-2] | 0[1-9] | [1-9]
MatchesMonth(ds) ==
    \/ Len(ds) = 2 /\ ds[1] = "1" /\ ds[2] \in {"0", "1", "2"}
    \/ Len(ds) = 2 /\ ds[1] = "0" /\ ds[2] \in Digits \ {"0"}
    \/ Len(ds) = 1 /\ ds[1] \in Digits \ {"0"}

\* the directive %d: 3[0-1] | [1-2]\d | 0[1-9] | [1-9] | blank [1-9]
MatchesDay(ds) ==
    \/ Len(ds) = 2 /\ ds[1] = "3" /\ ds[2] \in {"0", "1"}
    \/ Len(ds) = 2 /\ ds[1] \in {"1", "2"} /\ ds[2] \in Digits
    \/ Len(ds) = 2 /\ ds[1] = "0" /\ ds[2] \in Digits \ {"0"}
    \/ Len(ds) = 1 /\ ds[1] \in Digits \ {"0"}
    \/ Len(ds) = 2 /\ ds[1] = " " /\ ds[2] \in Digits \ {"0"}

IsLeap(y) == y % 4 = 0 /\ (y % 100 # 0 \/ y % 400 = 0)

DaysInMonth(y, m) ==
    IF m = 2 THEN (IF IsLeap(y) THEN 29 ELSE 28)
    ELSE IF m \in {4, 6, 9, 11} THEN 30 ELSE 31

\* the date the parsed fields are turned into exists (datetime raises
\* ValueError otherwise)
ValidDate(y, m, d) ==
    /\ y >= 1
    /\ m \in 1..12
    /\ d \in 1..DaysInMonth(y, m)

\* datetime.strptime(name, "%Y-%m-%d") returns a date: the whole name
\* matches year "-" month "-" day and the date exists
Strptime(name) ==
    \E i \in 1..Len(name), j \in 1..Len(name) :
        /\ i < j
        /\ name[i] = "-"
        /\ name[j] = "-"
        /\ LET y == SubSeq(name, 1, i - 1)
               m == SubSeq(name, i + 1, j - 1)
               d == SubSeq(name, j + 1, Len(name))
           IN /\ MatchesYear(y)
              /\ MatchesMonth(m)
              /\ MatchesDay(d)
              /\ ValidDate(Number(y), Number(m), Number(d))

\* is_date_format (41-47): True when strptime returns, False on ValueError
IsDateFormat(name) == Strptime(name)

Dash == <<"-">>

YearTexts == {<<"2", "0", "2", "4">>, <<"2", "0", "2", "3">>, <<"2", "4">>}

MonthTexts == {<<"0", "1">>, <<"1">>, <<"0", "2">>, <<"2">>, <<"1", "2">>,
               <<"1", "3">>, <<"0", "0">>}

DayTexts == {<<"0", "1">>, <<"1">>, <<"2", "9">>, <<"3", "0">>, <<"3", "1">>,
             <<"3", "2">>, <<"0", "0">>, <<" ", "1">>}

\* names a directory listing can hold: dates well and badly written, and
\* names that are no dates at all
Names ==
    {y \o Dash \o m \o Dash \o d : y \in YearTexts, m \in MonthTexts, d \in DayTexts}
    \cup {<<"n", "o", "t", "a", "d", "a", "t", "e">>,
          <<>>,
          <<"2", "0", "2", "4", "0", "1", "0", "1">>,
          <<"2", "0", "2", "4", "-", "0", "1">>,
          <<"2", "0", "2", "4", "-", "0", "1", "-", "0", "1", "x">>,
          <<"2", "0", "2", "4", "/", "0", "1", "/", "0", "1">>}

DateAtRest ==
    /\ dirname = <<>>
    /\ is_date = "none"

IsDateFormatCall ==
    /\ is_date = "none"
    /\ is_date' = PyBool(IsDateFormat(dirname))
    /\ UNCHANGED dirname
    /\ UNCHANGED notDate

(***************************************************************************)
(* FileManager: dates and names (file_manager.py 49-62, 119-133)           *)
(***************************************************************************)
\* the longest retention tried, in days
MaxRetention == 2

\* the most free space tried, in megabytes
MaxFree == 2

\* "days_before_archive": 2 (main.py 105), the configured value
DaysBeforeArchive == 2

Date(y, m, d) == <<y, m, d>>

\* the day before
PrevDay(dt) ==
    IF dt[3] > 1 THEN Date(dt[1], dt[2], dt[3] - 1)
    ELSE IF dt[2] > 1 THEN Date(dt[1], dt[2] - 1, DaysInMonth(dt[1], dt[2] - 1))
    ELSE Date(dt[1] - 1, 12, 31)

RECURSIVE MinusDays(_, _)
\* datetime.now() - timedelta(days=n) (120), as a date
MinusDays(dt, n) == IF n = 0 THEN dt ELSE MinusDays(PrevDay(dt), n - 1)

DigitChar(k) ==
    CASE k = 0 -> "0" [] k = 1 -> "1" [] k = 2 -> "2" [] k = 3 -> "3"
      [] k = 4 -> "4" [] k = 5 -> "5" [] k = 6 -> "6" [] k = 7 -> "7"
      [] k = 8 -> "8" [] OTHER -> "9"

\* strftime("%Y-%m-%d") (121): year on four digits, month and day on two
Strftime(dt) ==
    <<DigitChar(dt[1] \div 1000), DigitChar((dt[1] \div 100) % 10),
      DigitChar((dt[1] \div 10) % 10), DigitChar(dt[1] % 10), "-",
      DigitChar(dt[2] \div 10), DigitChar(dt[2] % 10), "-",
      DigitChar(dt[3] \div 10), DigitChar(dt[3] % 10)>>

\* the code point of a character, for the comparison of strings
CodePoint(c) ==
    IF c \in Digits THEN 48 + DigitValue(c)
    ELSE CASE c = " " -> 32 [] c = "-" -> 45 [] c = "/" -> 47
           [] c = "a" -> 97 [] c = "d" -> 100 [] c = "e" -> 101
           [] c = "n" -> 110 [] c = "o" -> 111 [] c = "t" -> 116
           [] OTHER -> 120

RECURSIVE StrLess(_, _)
\* a < b on Python strings
StrLess(a, b) ==
    IF b = <<>> THEN FALSE
    ELSE IF a = <<>> THEN TRUE
    ELSE IF a[1] # b[1] THEN CodePoint(a[1]) < CodePoint(b[1])
    ELSE StrLess(Tail(a), Tail(b))

\* get_date_dirs (49-62): the subdirectories whose name is_date_format takes
GetDateDirs(dirs) == {n \in dirs : IsDateFormat(n)}

\* the attributes FileManager.__init__ (17-32) sets on the object
FileManagerAttrs == {"config", "archive_dir", "logs_dir", "archive_retention_days",
                     "log_retention_days", "min_free_space_mb"}

\* reading an attribute the object does not have raises AttributeError
HasAttr(a) == a \in FileManagerAttrs

\* the names the subdirectories of the two trees can bear
DirNames ==
    {Strftime(Date(2024, 2, 28)), Strftime(Date(2024, 3, 1)),
     Strftime(Date(2024, 11, 3)), Strftime(Date(2024, 11, 4)),
     <<"2", "0", "2", "4", "-", "1", "-", "1">>,
     <<"n", "o", "t", "a", "d", "a", "t", "e">>}

Days == {Date(2024, 3, 1), Date(2024, 11, 5)}

\* the names of the live tree: one day long past, one recent
LiveNames == {Strftime(Date(2024, 2, 28)), Strftime(Date(2024, 11, 4))}

(***************************************************************************)
(* FileManager: maintenance (file_manager.py 64-234)                       *)
(***************************************************************************)
\* the string the names are compared with (120-121, 69-70)
Cutoff(day, keep) == Strftime(MinusDays(day, keep))

\* the negation of the test "if dir_name >= cutoff_str: continue" (132, 81)
BelowCutoff(name, cutoff) == StrLess(name, cutoff)

\* the directories cleanup_old_archives sets out to remove (124-136)
ToRemove(dirs, day, keep) ==
    {n \in GetDateDirs(dirs) : BelowCutoff(n, Cutoff(day, keep))}

\* cleanup_old_archives (115-146); shutil.rmtree fails on "failing" (142-143)
CleanupOldArchives(dirs, day, keep, failing) ==
    dirs \ (ToRemove(dirs, day, keep) \ failing)

\* the <<directory, file>> pairs of the directories in dirs
FilesOf(pairs, dirs) == {p \in pairs : p[1] \in dirs}

\* check_disk_space (186-216) with the free space before and after the
\* cleanup: the value returned and whether the cleanup was run
CheckDiskSpace(before, after, min) ==
    IF ~HasAttr("current_dir")
       THEN [result |-> "False", cleanup |-> FALSE]                   \* 190, 214-216
    ELSE IF before >= min
       THEN [result |-> "True", cleanup |-> FALSE]                    \* 195, 212
    ELSE [result |-> PyBool(after >= min), cleanup |-> TRUE]          \* 199-210

FmCall(op, result, removed, failed, cleanup, before, after) ==
    [op |-> op, result |-> result, removed |-> removed, failed |-> failed,
     cleanup |-> cleanup, free_before |-> before, free_after |-> after,
     pre_archive |-> archive, pre_live |-> live_dirs, pre_live_files |-> live_files,
     pre_archive_files |-> archive_files]

NoFmCall ==
    [op |-> "none", result |-> "none", removed |-> {}, failed |-> {},
     cleanup |-> FALSE, free_before |-> 0, free_after |-> 0, pre_archive |-> {},
     pre_live |-> {}, pre_live_files |-> {}, pre_archive_files |-> {}]

FileManagerAtRest ==
    /\ today = Date(2024, 3, 1)
    /\ archive_retention_days = 0
    /\ min_free_space_mb = 1
    /\ live_dirs = {}
    /\ live_files = {}
    /\ archive = {}
    /\ archive_files = {}
    /\ fm = NoFmCall

CleanupOldArchivesCall ==
    /\ \E failing \in SUBSET ToRemove(archive, today, archive_retention_days) :
         LET left == CleanupOldArchives(archive, today, archive_retention_days, failing)
         IN /\ archive' = left
            /\ archive_files' = FilesOf(archive_files, left)
            /\ fm' = FmCall("cleanup_old_archives", "count", archive \ left, failing,
                            FALSE, 0, 0)
    /\ UNCHANGED <<today, archive_retention_days, min_free_space_mb, live_dirs,
                   live_files>>
    /\ UNCHANGED notFileManager

\* ensure_today_dir (33-38)
EnsureTodayDirCall ==
    /\ archive' = archive \cup {Strftime(today)}
    /\ fm' = FmCall("ensure_today_dir", "path", {}, {}, FALSE, 0, 0)
    /\ UNCHANGED <<today, archive_retention_days, min_free_space_mb, live_dirs,
                   live_files, archive_files>>
    /\ UNCHANGED notFileManager

CheckDiskSpaceCall ==
    /\ \E before \in 0..MaxFree, after \in 0..MaxFree :
         LET r == CheckDiskSpace(before, after, min_free_space_mb) IN
         IF r.cleanup
            THEN \E failing \in SUBSET ToRemove(archive, today, archive_retention_days) :
                   LET left == CleanupOldArchives(archive, today,
                                                  archive_retention_days, failing)
                   IN /\ archive' = left
                      /\ archive_files' = FilesOf(archive_files, left)
                      /\ fm' = FmCall("check_disk_space", r.result, archive \ left,
                                      failing, TRUE, before, after)
            ELSE /\ fm' = FmCall("check_disk_space", r.result, {}, {}, FALSE,
                                 before, after)
                 /\ UNCHANGED <<archive, archive_files>>
    /\ UNCHANGED <<today, archive_retention_days, min_free_space_mb, live_dirs,
                   live_files>>
    /\ UNCHANGED notFileManager

\* archive_old_directories (64-113): the cutoff is computed from
\* self.days_before_archive (69) and the live tree is self.current_dir (73);
\* with both at hand, the dated directories below the cutoff are moved, whole
\* (93-94) or file by file into an existing folder (96-105)
ArchiveOldDirectoriesCall ==
    /\ IF ~HasAttr("days_before_archive") \/ ~HasAttr("current_dir")
          THEN /\ fm' = FmCall("archive_old_directories", "raise", {}, {}, FALSE, 0, 0)
               /\ UNCHANGED <<live_dirs, live_files, archive, archive_files>>
          ELSE LET moved == ToRemove(live_dirs, today, DaysBeforeArchive) IN
                 /\ live_dirs' = live_dirs \ moved
                 /\ live_files' = live_files \ FilesOf(live_files, moved)
                 /\ archive' = archive \cup moved
                 /\ archive_files' = archive_files \cup FilesOf(live_files, moved)
                 /\ fm' = FmCall("archive_old_directories", "count", moved, {},
                                 FALSE, 0, 0)
    /\ UNCHANGED <<today, archive_retention_days, min_free_space_mb>>
    /\ UNCHANGED notFileManager

(***************************************************************************)
(* load_config (main.py 84-143)                                            *)
(***************************************************************************)
\* A JSON value of a section: an object, given by its <<key, value>> pairs,
\* or a number; scalars are written as their JSON text.
Object(items) == [kind |-> "object", items |-> items, text |-> ""]

Number_(text) == [kind |-> "number", items |-> {}, text |-> text]

String(text) == [kind |-> "string", items |-> {}, text |-> text]

Keys(section) == {p[1] : p \in section.items}

\* the content of a file: missing, not JSON, a JSON object with its
\* sections, or another JSON value
Content(top, sections) == [top |-> top, sections |-> sections]

NoSections == [s \in {} |-> Object({})]

\* default_config (87-116)
DefaultSections == {"camera", "sync", "file_management", "safe_mode", "log_level"}

DefaultSection(s) ==
    CASE s = "camera" ->
           Object({<<"interval", "20">>, <<"captures", "3">>, <<"hflip", "false">>,
                   <<"vflip", "false">>, <<"rotation", "0">>, <<"quality", "35">>,
                   <<"width", "2592">>, <<"height", "1944">>})
      [] s = "sync" ->
           Object({<<"remote_name", "dropbox">>, <<"remote_path", "pi_cam">>,
                   <<"sync_logs", "true">>, <<"sync_on_shutdown", "true">>})
      [] s = "file_management" ->
           Object({<<"days_before_archive", "2">>, <<"archive_retention_days", "10">>,
                   <<"log_retention_days", "7">>, <<"min_free_space_mb", "500">>})
      [] s = "safe_mode" ->
           Object({<<"enabled", "true">>, <<"delay_seconds", "180">>,
                   <<"message", "Safe mode: Waiting for potential remote intervention...">>})
      [] OTHER -> String("INFO")

DefaultConfig == Content("object", [s \in DefaultSections |-> DefaultSection(s)])

\* a section of the file completed with the default keys it lacks (135-138)
FillKeys(section, default) ==
    Object(section.items \cup {p \in default.items : p[1] \notin Keys(section)})

\* the statements 132-138 raise: the top-level value is no object ("in" or
\* the item assignment raises TypeError), or a section whose default is an
\* object is a number or a string in the file ("key not in 5" and the item
\* assignment on a string raise TypeError)
MergeRaises(file) ==
    \/ file.top # "object"
    \/ \E s \in DOMAIN file.sections \cap DefaultSections :
         /\ DefaultSection(s).kind = "object"
         /\ file.sections[s].kind # "object"

\* mutant: the sections of the file are replaced by the defaults
MergedByDefaults(file) ==
    Content("object",
            [s \in DOMAIN file.sections \cup DefaultSections |->
               IF s \in DefaultSections THEN DefaultSection(s) ELSE file.sections[s]])

\* the loop 132-138 on a file it does not raise on
Merged(file) ==
    Content("object",
            [s \in DOMAIN file.sections \cup DefaultSections |->
               IF s \notin DOMAIN file.sections THEN DefaultSection(s)
               ELSE IF s \in DefaultSections /\ DefaultSection(s).kind = "object"
                    THEN FillKeys(file.sections[s], DefaultSection(s))
                    ELSE file.sections[s]])

\* load_config (84-143)
LoadConfig(file) ==
    IF file.top = "missing" THEN DefaultConfig                        \* 121-124
    ELSE IF file.top = "invalid" THEN DefaultConfig                   \* 129, 141-143
    ELSE IF MergeRaises(file) THEN DefaultConfig                      \* 141-143
    ELSE Merged(file)                                                 \* 140

\* the sections a file of the model may hold, and the values of each: a
\* number, or an object with any of a default key and a key of its own
FileSections == {"camera", "sync", "log_level", "extra"}

FirstKey(s) ==
    CASE s = "camera" -> "interval" [] s = "sync" -> "remote_name" [] OTHER -> "name"

SectionValues(s) ==
    {Number_("5"), String("DEBUG")}
    \cup {Object(items) : items \in SUBSET {<<FirstKey(s), "mine">>, <<"custom", "mine">>}}

Contents ==
    {Content("missing", NoSections), Content("invalid", NoSections),
     Content("other", NoSections)}
    \cup UNION {{Content("object", f) : f \in [present -> UNION {SectionValues(s) : s \in FileSections}]}
                : present \in SUBSET FileSections}

ConfigAtRest ==
    /\ config_file = Content("missing", NoSections)
    /\ loaded = <<>>

LoadConfigCall ==
    /\ loaded = <<>>
    /\ loaded' = <<LoadConfig(config_file)>>
    /\ config_file' = IF config_file.top = "missing" THEN DefaultConfig   \* 122-123
                                                      ELSE config_file
    /\ UNCHANGED notConfig

(***************************************************************************)
(* DropboxSync.sync_logs (sync.py 320-324)                                 *)
(***************************************************************************)
\* the attributes __init__ assigns on the object (22-31)
DropboxSyncAttrs ==
    {"config", "remote_name", "remote_path", "sync_logs", "bidirectional",
     "current_dir", "logs_dir", "state_dir"}

\* the methods of the class (20-324)
DropboxSyncMethods ==
    {"_check_rclone_config", "_ensure_directory_not_empty", "sync_directory",
     "_one_way_sync", "_bidirectional_copy_approach", "sync_daily_directory",
     "sync_all_current", "sync_logs"}

\* what obj.name is: an attribute of the instance hides a method of the class
Lookup(name) ==
    IF name \in DropboxSyncAttrs THEN "attribute"
    ELSE IF name \in DropboxSyncMethods THEN "method"
    ELSE "missing"

\* obj.sync_logs(): calling the attribute, a bool, raises TypeError; the
\* method itself (322-324) is reached only when no attribute hides it
SyncLogs(ex, loc, rem, bidir, slogs) ==
    IF Lookup("sync_logs") # "method"
       THEN {[Blank(ex, loc, rem) EXCEPT !.mode = "TypeError", !.result = FALSE]}
    ELSE IF slogs
       THEN SyncDirectory(logs_dir, ex, loc, rem, bidir, slogs)           \* 322-323
       ELSE {[Blank(ex, loc, rem) EXCEPT !.mode = "disabled"]}            \* 324

(***************************************************************************)
(* DropboxSync.__init__ and _check_rclone_config (sync.py 20-86)           *)
(***************************************************************************)
\* what "rclone listremotes" and "rclone lsf" do at construction: "absent" is
\* the tool not being installed (subprocess.run raises FileNotFoundError),
\* "none" a call that is not reached
CheckOutcome == Outcome \cup {"absent"}

\* mutant: the check of the remote is not made
CheckRcloneConfigPasses(listremotes, listed, lsf) == TRUE

\* _check_rclone_config (45-86): the outcome of listremotes, whether the
\* configured remote is among the listed ones, the outcome of lsf
CheckRcloneConfig(listremotes, listed, lsf) ==
    IF listremotes \in {"timeout", "absent"} THEN FALSE               \* 84-86
    ELSE IF listremotes # "ok" THEN FALSE                             \* 56-58
    ELSE IF ~listed THEN FALSE                                        \* 63-67
    ELSE IF lsf \in {"timeout", "absent"} THEN FALSE                  \* 84-86
    ELSE IF lsf # "ok" THEN FALSE                                     \* 77-79
    ELSE TRUE                                                         \* 82

Construction(flag, makedirs, listremotes, listed, lsf) ==
    [flag |-> flag, makedirs |-> makedirs, listremotes |-> listremotes,
     listed |-> listed, lsf |-> lsf, state_files |-> {}]

\* the bidirectional attribute after __init__ (26, 32-43): the configured
\* flag, cleared when the state directory cannot be made and when the check
\* of the tool and the remote fails
DropboxSyncInit(k) ==
    LET configured == k.flag                                          \* 26
        made == IF k.makedirs = "raise" THEN FALSE ELSE configured    \* 37-39
    IN IF ~CheckRcloneConfig(k.listremotes, k.listed, k.lsf)
          THEN FALSE                                                  \* 42-43
          ELSE made

\* the constructions tried: every way through _check_rclone_config
Constructions ==
    {Construction(flag, makedirs, c[1], c[2], c[3]) :
       flag \in BOOLEAN, makedirs \in {"ok", "raise"},
       c \in {<<"ok", TRUE, "ok">>, <<"ok", TRUE, "fail">>, <<"ok", TRUE, "timeout">>,
              <<"ok", FALSE, "none">>, <<"fail", FALSE, "none">>,
              <<"timeout", FALSE, "none">>, <<"absent", FALSE, "none">>}}

\* a construction in which every call succeeds, with the flag as configured
Configured(flag) == Construction(flag, "ok", "ok", TRUE, "ok")

\* the tool is unavailable, or the remote is missing or cannot be accessed
Unavailable(k) == k.listremotes # "ok" \/ ~k.listed \/ k.lsf # "ok"

\* mutant: a run that fell back to the one-way sync turns the feature off
FlagAfterDisabling(bidir, r) == bidir /\ r.fallback = "none"

\* the bidirectional attribute after sync_directory: no method called by it
\* assigns an attribute of the object (106-303)
FlagAfter(bidir, r) == bidir

(***************************************************************************)
(* State machine                                                           *)
(***************************************************************************)
Event(kind, file, flag) == [kind |-> kind, file |-> file, flag |-> flag]

Invocation(r, ex, loc, rem, before) ==
    [returned |-> TRUE, r |-> r, pre_exists |-> ex, pre_local |-> loc,
     pre_remote |-> rem, before |-> before]

NoCall ==
    [Invocation(Blank(FALSE, {}, {}), FALSE, {}, {}, Event("other", "", FALSE))
       EXCEPT !.returned = FALSE]

AllOk(calls) == \A i \in 1..Len(calls) : calls[i].out = "ok"

\* a bidirectional run that went through without any failure
Clean(r) ==
    /\ r.mode = "bidirectional"
    /\ r.fallback = "none"
    /\ ~r.walk_raised
    /\ AllOk(r.calls)

Init ==
    /\ local_dir \in Dirs
    /\ dir_exists \in BOOLEAN
    /\ local = {}
    /\ remote = {}
    /\ bidirectional \in BOOLEAN
    /\ sync_logs \in BOOLEAN
    /\ ev = Event("other", "", FALSE)
    /\ last = NoCall
    /\ construction = Configured(bidirectional)
    /\ CameraAtRest
    /\ MainAtRest
    /\ DateAtRest
    /\ FileManagerAtRest
    /\ ConfigAtRest

\* main.py 266-268: os.makedirs(directory, exist_ok=True)
MakeDir ==
    /\ ~last.returned
    /\ ~dir_exists
    /\ dir_exists' = TRUE
    /\ ev' = Event("other", "", FALSE)
    /\ last' = NoCall
    /\ UNCHANGED <<local_dir, local, remote, bidirectional, sync_logs, construction>>
    /\ UNCHANGED notSync

\* camera.py 62: the capture tool writes an image into the directory
LocalAdd(f) ==
    /\ ~last.returned
    /\ dir_exists
    /\ f \notin local
    /\ local' = local \cup {f}
    /\ ev' = Event("other", "", FALSE)
    /\ last' = NoCall
    /\ UNCHANGED <<local_dir, dir_exists, remote, bidirectional, sync_logs, construction>>
    /\ UNCHANGED notSync

\* a file of the directory is removed locally
LocalDelete(f) ==
    /\ ~last.returned
    /\ f \in local
    /\ local' = local \ {f}
    /\ ev' = IF f \in remote THEN Event("local_delete", f, TRUE)
                             ELSE Event("other", "", FALSE)
    /\ last' = NoCall
    /\ UNCHANGED <<local_dir, dir_exists, remote, bidirectional, sync_logs, construction>>
    /\ UNCHANGED notSync

\* another client adds a file to the remote location
RemoteAdd(f) ==
    /\ ~last.returned
    /\ f \notin remote
    /\ remote' = remote \cup {f}
    /\ ev' = Event("other", "", FALSE)
    /\ last' = NoCall
    /\ UNCHANGED <<local_dir, dir_exists, local, bidirectional, sync_logs, construction>>
    /\ UNCHANGED notSync

\* another client deletes a file of the remote location
RemoteDelete(f) ==
    /\ ~last.returned
    /\ f \in remote
    /\ remote' = remote \ {f}
    /\ ev' = IF f \in local THEN Event("remote_delete", f, TRUE)
                            ELSE Event("other", "", FALSE)
    /\ last' = NoCall
    /\ UNCHANGED <<local_dir, dir_exists, local, bidirectional, sync_logs, construction>>
    /\ UNCHANGED notSync

\* one invocation of sync_directory(local_dir)
SyncDirectoryCall ==
    /\ ~last.returned
    /\ \E r \in SyncDirectory(local_dir, dir_exists, local, remote,
                           bidirectional, sync_logs) :
        /\ dir_exists' = r.exists
        /\ local' = r.local
        /\ remote' = r.remote
        /\ last' = Invocation(r, dir_exists, local, remote, ev)
        /\ ev' = Event("sync", "", Clean(r))
        /\ bidirectional' = FlagAfter(bidirectional, r)
        /\ UNCHANGED <<local_dir, sync_logs, construction>>
    /\ UNCHANGED notSync

\* one call of sync_logs() on the object bound to the logs directory
SyncLogsCall ==
    /\ ~last.returned
    /\ local_dir = logs_dir
    /\ \E r \in SyncLogs(dir_exists, local, remote, bidirectional, sync_logs) :
        /\ dir_exists' = r.exists
        /\ local' = r.local
        /\ remote' = r.remote
        /\ last' = Invocation(r, dir_exists, local, remote, ev)
        /\ ev' = Event("sync_logs", "", FALSE)
        /\ bidirectional' = FlagAfter(bidirectional, r)
        /\ UNCHANGED <<local_dir, sync_logs, construction>>
    /\ UNCHANGED notSync

\* the caller takes the returned value and goes on
Return ==
    /\ last.returned
    /\ last' = NoCall
    /\ UNCHANGED <<local_dir, dir_exists, local, remote, bidirectional, sync_logs, ev,
                   construction>>
    /\ UNCHANGED notSync

Next ==
    \/ MakeDir
    \/ \E f \in ImageFiles : LocalAdd(f)
    \/ \E f \in ImageFiles : LocalDelete(f)
    \/ \E f \in ImageFiles : RemoteAdd(f)
    \/ \E f \in ImageFiles : RemoteDelete(f)
    \/ SyncDirectoryCall
    \/ Return

Spec == Init /\ [][Next]_vars

(***************************************************************************)
(* The object as constructed (sync.py 20-43) on one of its two directories *)
(***************************************************************************)
InitConstruct ==
    /\ local_dir \in {current_dir, logs_dir}
    /\ dir_exists = TRUE
    /\ local = {}
    /\ remote = {}
    /\ construction \in Constructions
    /\ bidirectional = DropboxSyncInit(construction)
    /\ sync_logs \in BOOLEAN
    /\ ev = Event("other", "", FALSE)
    /\ last = NoCall
    /\ CameraAtRest
    /\ MainAtRest
    /\ DateAtRest
    /\ FileManagerAtRest
    /\ ConfigAtRest

NextConstruct ==
    \/ \E f \in ImageFiles : LocalAdd(f)
    \/ \E f \in ImageFiles : LocalDelete(f)
    \/ \E f \in ImageFiles : RemoteAdd(f)
    \/ \E f \in ImageFiles : RemoteDelete(f)
    \/ SyncDirectoryCall
    \/ SyncLogsCall
    \/ Return

SpecConstruct == InitConstruct /\ [][NextConstruct]_vars

\* no sync_directory call is under way
SyncAtRest ==
    /\ local_dir = current_dir
    /\ dir_exists = FALSE
    /\ local = {}
    /\ remote = {}
    /\ bidirectional = FALSE
    /\ sync_logs = FALSE
    /\ ev = Event("other", "", FALSE)
    /\ last = NoCall
    /\ construction = Configured(FALSE)

(***************************************************************************)
(* The camera driven by any sequence of its three calls                    *)
(***************************************************************************)
InitCamera ==
    /\ CameraInit
    /\ SyncAtRest
    /\ MainAtRest
    /\ DateAtRest
    /\ FileManagerAtRest
    /\ ConfigAtRest

NextCamera ==
    \/ CaptureImageCall
    \/ ShouldSyncCall
    \/ ResetCaptureCountCall

SpecCamera == InitCamera /\ [][NextCamera]_vars

(***************************************************************************)
(* main from its start to the construction of the components               *)
(***************************************************************************)
InitMain ==
    /\ pc = "start"
    /\ running = TRUE                                                 \* 25
    /\ safe_mode_interrupted = FALSE                                  \* 26
    /\ handler = "default"
    /\ remaining = 0
    /\ config \in {Config(e, d, TRUE, TRUE) : e \in BOOLEAN, d \in 0..MaxDelay}
    /\ camera_attached \in BOOLEAN
    /\ exit_code = <<>>
    /\ run = NoRun
    /\ it = NoIteration
    /\ CameraAtRest
    /\ SyncAtRest
    /\ DateAtRest
    /\ FileManagerAtRest
    /\ ConfigAtRest

NextMain ==
    \/ SafeModeBegin
    \/ DelayCheck
    \/ DelaySleep
    \/ DelayEnd
    \/ AfterDelay
    \/ Setup
    \/ InitComponents
    \/ Signal

SpecMain == InitMain /\ [][NextMain]_vars

(***************************************************************************)
(* The capture loop of main, taken from the point where it is entered      *)
(* (main.py 293) with the shutdown handler registered and a camera, a sync *)
(* and a file manager at hand, down to the return of main                  *)
(***************************************************************************)
InitLoop ==
    /\ pc = "loop_test"
    /\ running = TRUE
    /\ safe_mode_interrupted = FALSE
    /\ handler = "shutdown"                                           \* 271-272
    /\ remaining = 0
    /\ config \in {Config(FALSE, 0, s, l) : s \in BOOLEAN, l \in BOOLEAN}
    /\ camera_attached = TRUE
    /\ exit_code = <<>>
    /\ run = [NoRun EXCEPT !.delay = "True"]
    /\ it = NoIteration
    /\ CameraInit
    /\ SyncAtRest
    /\ DateAtRest
    /\ FileManagerAtRest
    /\ ConfigAtRest

\* the steps main takes by itself
ProgramStep ==
    \/ LoopTest
    \/ DateCheck
    \/ Capture
    \/ Network
    \/ SyncStep
    \/ LogsStep
    \/ SleepStep
    \/ Wake
    \/ Except
    \/ CooldownEnd
    \/ Final
    \/ FinalSync

NextLoop ==
    \/ LoopTest
    \/ DateCheck
    \/ Capture
    \/ Network
    \/ SyncStep
    \/ LogsStep
    \/ SleepStep
    \/ Wake
    \/ Except
    \/ CooldownEnd
    \/ Final
    \/ FinalSync
    \/ Signal

SpecLoop == InitLoop /\ [][NextLoop]_vars

\* every tool call and every sleep ends, so main always takes its next step
SpecLoopFair == InitLoop /\ [][NextLoop]_vars /\ WF_vars(ProgramStep)

(***************************************************************************)
(* is_date_format applied to a name of a listing                           *)
(***************************************************************************)
InitDate ==
    /\ dirname \in Names
    /\ is_date = "none"
    /\ FileManagerAtRest
    /\ ConfigAtRest
    /\ SyncAtRest
    /\ CameraAtRest
    /\ MainAtRest

NextDate == IsDateFormatCall

SpecDate == InitDate /\ [][NextDate]_vars

(***************************************************************************)
(* A FileManager driven by any sequence of its maintenance calls           *)
(***************************************************************************)
InitFileManager ==
    /\ today \in Days
    /\ archive_retention_days \in 0..MaxRetention
    /\ min_free_space_mb \in 1..MaxFree
    /\ live_dirs \in SUBSET LiveNames
    /\ live_files = live_dirs \X {FileName(1)}
    /\ archive \in SUBSET DirNames
    /\ archive_files = (archive \cap LiveNames) \X {FileName(2)}
    /\ fm = NoFmCall
    /\ SyncAtRest
    /\ CameraAtRest
    /\ MainAtRest
    /\ DateAtRest
    /\ ConfigAtRest

NextFileManager ==
    \/ CleanupOldArchivesCall
    \/ EnsureTodayDirCall
    \/ CheckDiskSpaceCall
    \/ ArchiveOldDirectoriesCall

SpecFileManager == InitFileManager /\ [][NextFileManager]_vars

(***************************************************************************)
(* load_config applied to a content of config.json                         *)
(***************************************************************************)
InitConfig ==
    /\ config_file \in Contents
    /\ loaded = <<>>
    /\ SyncAtRest
    /\ CameraAtRest
    /\ MainAtRest
    /\ DateAtRest
    /\ FileManagerAtRest

NextConfig == LoadConfigCall

SpecConfig == InitConfig /\ [][NextConfig]_vars

(***************************************************************************)
(* Properties                                                              *)
(***************************************************************************)
R == last.r

Issued(r, ops) == {i \in 1..Len(r.calls) : r.calls[i].op \in ops}

OneWayInvoked(r) == Issued(r, {"sync"}) # {}

Bidir == last.returned /\ R.mode = "bidirectional"

ListingOk(r) == Len(r.calls) >= 1 /\ r.calls[1] = Call("lsf", "", "ok")

\* the failures of the protocol that C1 lists
ProtocolFailure(r) ==
    \/ r.walk_raised
    \/ \E i \in Issued(r, {"lsf", "copy_up", "copy_down"}) : r.calls[i].out # "ok"
    \/ \E i \in Issued(r, {"deletefile"}) : r.calls[i].out = "timeout"

\* the failures on which the code does fall back
FallbackTrigger(r) ==
    \/ r.walk_raised
    \/ \E i \in Issued(r, {"lsf"}) : r.calls[i].out # "ok"
    \/ \E i \in Issued(r, {"copy_up", "copy_down"}) : r.calls[i].out = "timeout"

\* C1 as stated: in bidirectional mode every failure inside the protocol
\* (listing non-zero, a failed upload or download copy, a timed-out tool call, a
\* raising directory walk) has a one-way sync invoked before the return.
C1_AnyFailureFallsBack ==
    (Bidir /\ ProtocolFailure(R)) => OneWayInvoked(R)

\* C1 amended: in bidirectional mode a one-way sync is invoked, once and as the
\* last tool call, exactly when the listing exits non-zero or times out, an
\* upload or download copy times out, or the directory walk raises; a non-zero
\* exit of a copy and any failure of a per-file delete do not invoke it.
C1_FallbackOnListingOrException ==
    Bidir =>
        /\ OneWayInvoked(R) <=> FallbackTrigger(R)
        /\ OneWayInvoked(R) => Issued(R, {"sync"}) = {Len(R.calls)}

C1_Witness ==
    /\ Bidir
    /\ \E i \in Issued(R, {"copy_down"}) : R.calls[i].out = "timeout"
    /\ OneWayInvoked(R)

\* the image files that were local or remote before the invocation
PreFiles == (last.pre_local \cup last.pre_remote) \cap ImageFiles

\* C2 as stated: after a bidirectional sync whose tool calls all succeed, every
\* path that was local or remote before is on both sides, and no remote delete
\* is issued when nothing is missing locally after the download step.
C2_UnionOnBothSides ==
    (Bidir /\ Clean(R)) =>
        /\ PreFiles \subseteq local
        /\ PreFiles \subseteq remote
        /\ (last.pre_remote \subseteq local) => Issued(R, {"deletefile"}) = {}

\* C3 as stated: a bidirectional sync that directly follows a sync with no
\* filesystem change in between issues no upload copy, download copy or remote
\* delete, and no sync touches a path that was on both sides before it.
C3_Idempotent ==
    Bidir =>
        /\ (last.before.kind = "sync" /\ last.before.flag /\ Clean(R))
              => Issued(R, {"copy_up", "copy_down", "deletefile"}) = {}
        /\ \A f \in last.pre_local \cap last.pre_remote \cap ImageFiles :
              f \notin R.need_to_upload \cup R.need_to_download \cup R.to_delete_remotely

\* C4 as stated: the placeholder is in none of need_to_upload, need_to_download
\* and to_delete_remotely, also when the remote listing contains it.
C4_PlaceholderNotInDiff ==
    last.returned =>
        Placeholder \notin R.need_to_upload \cup R.need_to_download \cup R.to_delete_remotely

\* C5 as stated: a file that was on both sides and was then deleted on one side
\* is removed from the other side by the next bidirectional sync, and not
\* restored.
C5_DeletionsPropagate ==
    (Bidir /\ Clean(R) /\ last.before.kind \in {"local_delete", "remote_delete"}) =>
        /\ last.before.file \notin local
        /\ last.before.file \notin remote

\* C6 as stated: a timeout of a tool call is treated like a non-zero exit of the
\* same call: the invocation with that call exiting non-zero instead issues the
\* same other calls and returns the same value.
C6_TimeoutLikeNonZero ==
    last.returned =>
        \A i \in 1..Len(R.calls) :
            R.calls[i].out = "timeout" =>
                \E r2 \in SyncDirectory(local_dir, last.pre_exists, last.pre_local,
                                        last.pre_remote, bidirectional, sync_logs) :
                    /\ r2.calls = [R.calls EXCEPT ![i].out = "fail"]
                    /\ r2.result = R.result

\* C7 as stated: a bidirectional sync whose listing succeeded and whose walk did
\* not raise returns True, however many upload, download or delete operations
\* failed.
C7_PartialFailuresReturnTrue ==
    (Bidir /\ ListingOk(R) /\ ~R.walk_raised) => R.result

\* C8: whenever a one-way sync was run, the value returned is True exactly when
\* the mirror invocation exited zero (False on non-zero exit and on timeout),
\* and when it is True the remote file set equals the local file set.
C8_OneWayMirrors ==
    (last.returned /\ R.one_way) =>
        /\ OneWayInvoked(R)
        /\ R.result <=> (R.calls[Len(R.calls)] = Call("sync", "", "ok"))
        /\ R.result => remote = local

C8_Witness ==
    /\ last.returned /\ R.one_way /\ R.result
    /\ last.pre_remote \ last.pre_local # {}
    /\ last.pre_local \ last.pre_remote # {}
    /\ remote = local

\* C9: sync_directory on a directory that does not exist returns True, calls no
\* tool and changes nothing: the directory is not created, no placeholder is
\* written, the remote is as before.
C9_MissingDirectoryIsNoOp ==
    (last.returned /\ ~last.pre_exists) =>
        /\ R.result
        /\ R.calls = <<>>
        /\ ~dir_exists
        /\ local = last.pre_local
        /\ remote = last.pre_remote

C9_Witness ==
    /\ last.returned /\ ~last.pre_exists /\ R.result
    /\ remote # {}
    /\ StartsWith(local_dir, current_dir)

\* d is root or lies below it
Under(d, root) == d = root \/ StartsWith(d, root \o <<Sep>>)

\* the part of d after root, with its leading separator
Below(d, root) == SubSeq(d, Len(root) + 1, Len(d))

\* C10 as stated: an existing directory at or below the current-images root
\* maps to remote:base/<relative path>, one at or below the logs root maps to
\* remote:base/logs/<relative path> when log sync is enabled, and every other
\* directory is skipped with True and no tool call.
C10_RemoteTargetResolution ==
    (last.returned /\ last.pre_exists) =>
        IF Under(local_dir, current_dir)
           THEN R.remote_dir = RemoteBase \o Below(local_dir, current_dir)
        ELSE IF Under(local_dir, logs_dir) /\ sync_logs
           THEN R.remote_dir = RemoteBase \o <<Sep>> \o Logs \o Below(local_dir, logs_dir)
        ELSE R.mode = "unrecognized" /\ R.result /\ R.calls = <<>>

\* C11 as stated: in one-way mode sync_directory on an existing, empty
\* directory skips it: no placeholder is written into the directory and no
\* mirror is invoked; a placeholder is written only in bidirectional mode.
C11_OneWaySkipsEmptyDirectory ==
    /\ (last.returned /\ R.mode = "one_way" /\ last.pre_exists /\ last.pre_local = {}) =>
            /\ Placeholder \notin local
            /\ ~OneWayInvoked(R)
    /\ (last.returned /\ Placeholder \in local \ last.pre_local) =>
            R.mode = "bidirectional"

\* C12 as stated: capture_image returns the output path and adds exactly one
\* to the counter when the capture tool exits zero and the output file exists,
\* and returns None with the counter unchanged when the tool exits non-zero,
\* times out or leaves no file; so after as many captures as the threshold,
\* the tool having succeeded in each, the counter has reached the threshold.
C12_CaptureCountsSuccesses ==
    /\ cam.op = "capture_image" =>
         IF cam.tool = "ok" /\ cam.file
            THEN cam.ret = "path" /\ capture_count = cam.pre_count + 1
            ELSE cam.ret = "None" /\ capture_count = cam.pre_count
    /\ (since_reset.all_ok /\ since_reset.captures >= captures_before_sync) =>
         capture_count >= captures_before_sync

\* the calls that returned a path since the counter was last zeroed
SuccessfulCaptures == since_reset.successes

\* C13: after any sequence of capture_image, should_sync and
\* reset_capture_count calls, should_sync returns true exactly when the
\* successful captures since the last reset number at least the threshold, and
\* reset_capture_count leaves the counter at zero.
C13_ShouldSyncAtThreshold ==
    /\ cam.op = "should_sync" =>
         (cam.ret = "True" <=> SuccessfulCaptures >= captures_before_sync)
    /\ cam.op = "reset_capture_count" => capture_count = 0

C13_Witness ==
    /\ cam.op = "should_sync"
    /\ cam.ret = "True"
    /\ since_reset.captures > 0

\* C16: a SIGINT or SIGTERM delivered at any moment of the safe-mode delay
\* makes main return 0 without setting up the directories, constructing the
\* components or entering the loop, and no further one-second sleep is begun
\* once the signal is in (a further signal after the handlers are restored ends
\* the process instead); with safe mode disabled the delay returns True at
\* once, without a sleep.
C16_SafeModeInterruptible ==
    /\ run.signal_in_delay =>
         /\ pc \in InDelay \cup {"after_delay", "returned", "killed"}
         /\ pc = "returned" => exit_code = <<0>>
         /\ ~run.slept_after_signal
    /\ ~config.enabled =>
         /\ run.sleeps = 0
         /\ run.delay \in {"none", "True"}
         /\ pc \notin {"start", "killed"} => run.delay = "True"

C16_Witness ==
    /\ run.signal_in_delay
    /\ pc = "returned"
    /\ exit_code = <<0>>
    /\ run.sleeps >= 1
    /\ remaining >= 2

\* C19 as stated: main returns 0 or 1, it returns 1 only after an exception
\* reached its top level (or the camera was not detected), and when the
\* safe-mode delay has completed uninterrupted, a camera is attached and no
\* tool or system call fails, main does not return 1 but goes on to the loop.
C19_ExitCodes ==
    pc = "returned" =>
        /\ exit_code \in {<<0>>, <<1>>}
        /\ exit_code = <<1>> => run.fault
        /\ (run.delay = "True" /\ ~safe_mode_interrupted /\ camera_attached
              /\ ~run.tool_fault) => exit_code # <<1>>

\* a name of the form YYYY-MM-DD: ten characters, digits but for the two
\* dashes, that name a date of the calendar
YearMonthDay(name) ==
    /\ Len(name) = 10
    /\ \A i \in {1, 2, 3, 4, 6, 7, 9, 10} : name[i] \in Digits
    /\ name[5] = "-"
    /\ name[8] = "-"
    /\ ValidDate(Number(SubSeq(name, 1, 4)), Number(SubSeq(name, 6, 7)),
                 Number(SubSeq(name, 9, 10)))

\* C20 as stated: is_date_format returns true exactly for the names of the
\* form YYYY-MM-DD (four-digit year, two-digit month, two-digit day, a date of
\* the calendar) and false for every other name, 2024-13-01, notadate and
\* 2024-1-1 among them.
C20_ExactlyYearMonthDay ==
    is_date # "none" => (is_date = "True" <=> YearMonthDay(dirname))

AfterSyncStep == {"logs", "sleep", "sleeping", "except", "cooldown", "loop_test",
                  "final", "final_sync", "returned"}

NameDate(name) ==
    Date(Number(SubSeq(name, 1, 4)), Number(SubSeq(name, 6, 7)),
         Number(SubSeq(name, 9, 10)))

\* the day a comes before the day b
DateBefore(a, b) ==
    \/ a[1] < b[1]
    \/ a[1] = b[1] /\ a[2] < b[2]
    \/ a[1] = b[1] /\ a[2] = b[2] /\ a[3] < b[3]

\* the subdirectories named YYYY-MM-DD for a day strictly before today minus
\* the retention
Expired(dirs) ==
    {n \in dirs : /\ YearMonthDay(n)
                  /\ DateBefore(NameDate(n), MinusDays(today, archive_retention_days))}

\* C21 as stated: cleanup_old_archives removes exactly the archive
\* subdirectories named YYYY-MM-DD for a date strictly older than today minus
\* archive_retention_days (those it could delete, at least); a subdirectory
\* with a name not of that form, or dated within the retention, is never
\* removed.
C21_RemovesExactlyExpired ==
    fm.op = "cleanup_old_archives" =>
        /\ archive = fm.pre_archive \ fm.removed
        /\ fm.removed \subseteq Expired(fm.pre_archive)
        /\ fm.failed = {} => Expired(fm.pre_archive) \subseteq fm.removed

\* C22 as stated: check_disk_space returns True without any cleanup when the
\* free space is at or above the threshold; below it, the cleanup is run and
\* True is returned exactly when the free space is then at or above the
\* threshold.
C22_DiskSpaceVerdict ==
    fm.op = "check_disk_space" =>
        IF fm.free_before >= min_free_space_mb
           THEN fm.result = "True" /\ ~fm.cleanup
           ELSE fm.cleanup /\ (fm.result = "True" <=> fm.free_after >= min_free_space_mb)

\* the live directories named for a day strictly before today minus
\* days_before_archive
DueForArchive(dirs) ==
    {n \in dirs : /\ YearMonthDay(n)
                  /\ DateBefore(NameDate(n), MinusDays(today, DaysBeforeArchive))}

\* C23 as stated: archive_old_directories moves every dated directory of the
\* live tree older than today minus days_before_archive into the archive tree,
\* merging into a folder that is already there, so that afterwards each file of
\* such a directory is in the archive folder and the directory is gone from
\* the live tree; the other directories stay in place.
C23_ArchivesOldDirectories ==
    fm.op = "archive_old_directories" =>
        /\ \A n \in DueForArchive(fm.pre_live) :
             /\ n \notin live_dirs
             /\ n \in archive
             /\ FilesOf(fm.pre_live_files, {n}) \subseteq archive_files
             /\ FilesOf(fm.pre_archive_files, {n}) \subseteq archive_files
        /\ \A n \in fm.pre_live \ DueForArchive(fm.pre_live) :
             /\ n \in live_dirs
             /\ FilesOf(live_files, {n}) = FilesOf(fm.pre_live_files, {n})

\* each value the file provides is in the configuration, unchanged
Kept(file, cfg) ==
    \A s \in DOMAIN file.sections :
        /\ s \in DOMAIN cfg.sections
        /\ IF file.sections[s].kind = "object"
              THEN /\ cfg.sections[s].kind = "object"
                   /\ file.sections[s].items \subseteq cfg.sections[s].items
              ELSE cfg.sections[s] = file.sections[s]

\* each default section and each default key the file lacks is in the
\* configuration with its default
Filled(file, cfg) ==
    \A s \in DefaultSections :
        /\ s \in DOMAIN cfg.sections
        /\ s \notin DOMAIN file.sections => cfg.sections[s] = DefaultSection(s)
        /\ (s \in DOMAIN file.sections /\ DefaultSection(s).kind = "object") =>
             \A p \in DefaultSection(s).items :
                 p[1] \notin Keys(file.sections[s]) => p \in cfg.sections[s].items

ParsesAsJson(file) == file.top \in {"object", "other"}

\* C24 as stated: for every content of the file that parses as JSON,
\* load_config returns a configuration that keeps each value the file
\* provides, has each missing default section and default key filled in, and
\* so preserves the sections the defaults do not know.
C24_EveryJsonMerged ==
    (loaded # <<>> /\ ParsesAsJson(config_file)) =>
        /\ Kept(config_file, loaded[1])
        /\ Filled(config_file, loaded[1])

\* a JSON object in which every section that the defaults hold as an object
\* is an object
WellFormed(file) ==
    /\ file.top = "object"
    /\ \A s \in DOMAIN file.sections \cap DefaultSections :
         DefaultSection(s).kind = "object" => file.sections[s].kind = "object"

\* C24 amended: for every content that parses as a JSON object whose camera,
\* sync, file_management and safe_mode sections, where present, are objects,
\* load_config keeps each value of the file, fills in each missing default
\* section and key, and preserves the unknown sections; for any other JSON
\* content it returns the defaults alone.
C24_WellFormedJsonMerged ==
    (loaded # <<>> /\ ParsesAsJson(config_file)) =>
        IF WellFormed(config_file)
           THEN /\ Kept(config_file, loaded[1])
                /\ Filled(config_file, loaded[1])
                /\ DOMAIN loaded[1].sections = DOMAIN config_file.sections \cup DefaultSections
           ELSE loaded[1] = DefaultConfig

C24_Witness ==
    /\ loaded # <<>>
    /\ WellFormed(config_file)
    /\ DOMAIN config_file.sections = {"camera", "extra"}
    /\ config_file.sections["camera"] = Object({<<"interval", "mine">>, <<"custom", "mine">>})
    /\ <<"interval", "mine">> \in loaded[1].sections["camera"].items
    /\ <<"captures", "3">> \in loaded[1].sections["camera"].items
    /\ loaded[1].sections["extra"] = config_file.sections["extra"]
    /\ loaded[1].sections["sync"] = DefaultSection("sync")

\* the tool call of a run with the given operation and file, as a set
CallsOn(r, op, file) ==
    {r.calls[i] : i \in {j \in 1..Len(r.calls) : r.calls[j].op = op /\ r.calls[j].file = file}}

\* the files of the per-file deletes of a run, in the order of the calls
DeleteOrder(r) ==
    [i \in 1..Cardinality({j \in 1..Len(r.calls) : r.calls[j].op = "deletefile"}) |->
       r.calls[CHOOSE j \in 1..Len(r.calls) :
                 /\ r.calls[j].op = "deletefile"
                 /\ Cardinality({k \in 1..j : r.calls[k].op = "deletefile"}) = i].file]

IsPrefix(a, b) == Len(a) <= Len(b) /\ \A i \in 1..Len(a) : a[i] = b[i]

\* two runs met the same outcomes: the operating system raised in both or in
\* neither, the download left the same files, every tool call the two runs
\* share ended the same way, and the set of files to delete was walked in the
\* same order
SameOutcomes(r1, r2) ==
    /\ r1.walk_raised = r2.walk_raised
    /\ (r1.mode = "error") = (r2.mode = "error")
    /\ r1.local = r2.local
    /\ \A i \in 1..Len(r1.calls) :
         \A c \in CallsOn(r2, r1.calls[i].op, r1.calls[i].file) : c.out = r1.calls[i].out
    /\ IsPrefix(DeleteOrder(r1), DeleteOrder(r2)) \/ IsPrefix(DeleteOrder(r2), DeleteOrder(r1))

BidirectionalOps == {"lsf", "copy_down", "deletefile"}

OpsOf(r) == {r.calls[i].op : i \in 1..Len(r.calls)}

\* C26: when the tool is unavailable or the configured remote is missing or
\* inaccessible at construction, the bidirectional flag is false after
\* construction, it never goes from false back to true, and no later
\* sync_directory call issues a remote listing, a download copy or a remote
\* delete.
C26_DisabledStaysDisabled ==
    /\ [](Unavailable(construction) =>
            /\ ~bidirectional
            /\ last.returned => OpsOf(last.r) \cap BidirectionalOps = {})
    /\ [][~bidirectional => ~bidirectional']_vars

C26_Witness ==
    /\ construction.flag
    /\ construction.listremotes = "ok"
    /\ ~construction.listed
    /\ ~bidirectional
    /\ last.returned
    /\ last.pre_remote # {}
    /\ last.pre_remote \cap last.pre_local = {}
    /\ OpsOf(last.r) = {"sync"}

\* the positions of the calls of an operation in a run
Positions(r, op) == {i \in 1..Len(r.calls) : r.calls[i].op = op}

Before(r, op1, op2) == \A i \in Positions(r, op1), j \in Positions(r, op2) : i < j

\* the files for which a per-file delete was issued
DeleteTargets(r) == {r.calls[i].file : i \in Positions(r, "deletefile")}

\* the delete loop of a run was not cut short by a timeout
DeletesRanThrough(r) ==
    /\ r.fallback = "none"
    /\ ~r.walk_raised
    /\ \A i \in Positions(r, "deletefile") : r.calls[i].out # "timeout"

\* C27: within one bidirectional invocation the steps occur in the order
\* listing, upload, download, reconcile-delete; the upload copy is issued only
\* if need_to_upload is non-empty, the download copy only if need_to_download
\* is non-empty, per-file deletes only after a download was attempted, and
\* the paths deleted remotely are exactly the members of the original
\* need_to_download that are still absent from the local directory after
\* the download step.
C27_StepOrderAndDeleteSet ==
    (last.returned /\ last.r.mode = "bidirectional") =>
        LET r == last.r IN
        /\ Before(r, "lsf", "copy_up") /\ Before(r, "lsf", "copy_down")
        /\ Before(r, "lsf", "deletefile")
        /\ Before(r, "copy_up", "copy_down") /\ Before(r, "copy_up", "deletefile")
        /\ Before(r, "copy_down", "deletefile")
        /\ Positions(r, "copy_up") # {} => r.need_to_upload # {}
        /\ Positions(r, "copy_down") # {} => r.need_to_download # {}
        /\ Positions(r, "deletefile") # {} => Positions(r, "copy_down") # {}
        /\ DeletesRanThrough(r) =>
             DeleteTargets(r) = {f \in r.need_to_download : f \notin r.local}

\* C28: on a constructed object, sync_logs() returns True without invoking
\* any tool when log sync is disabled, otherwise returns what sync_directory
\* on the logs directory returns, and never raises.
C28_SyncLogsNeverRaises ==
    (last.returned /\ ev.kind = "sync_logs") =>
        /\ last.r.mode # "TypeError"
        /\ IF sync_logs
              THEN last.r \in SyncDirectory(logs_dir, last.pre_exists, last.pre_local,
                                            last.pre_remote, bidirectional, sync_logs)
              ELSE last.r.result /\ last.r.calls = <<>>

\* C29: no file is lost by a bidirectional sync under any combination of tool
\* failures: each path present locally or remotely before sync_directory is
\* present on at least one side when it returns.
C29_NoFileLost ==
    (last.returned /\ last.r.mode = "bidirectional" /\ ~last.r.walk_raised) =>
        (last.pre_local \cup last.pre_remote) \subseteq (last.r.local \cup last.r.remote)

\* C30: safe_mode_delay restores the signal handlers on every return path:
\* once it has returned, whether the countdown completed, was interrupted or
\* raised, the installed handler is not safe_mode_signal_handler.
C30_HandlersRestored ==
    run.delay # "none" => handler # "safe_mode"

\* the ways sync_directory returns: the two skips (110-112, 132-135), the
\* except clause of 147-149, and the two protocols (141-145)
ReturnModes == {"missing", "unrecognized", "error", "one_way", "bidirectional"}

\* a one-way sync was attempted and did not exit zero
OneWayFailed(r) ==
    /\ r.one_way
    /\ \E i \in Positions(r, "sync") : r.calls[i].out # "ok"

\* C31: sync_directory never raises: for every state of the local directory
\* and every outcome of the tool calls it returns a boolean, and it returns
\* False only when a one-way sync was attempted and failed or an exception
\* occurred outside the bidirectional protocol.
C31_SyncDirectoryNeverRaises ==
    last.returned =>
        /\ last.r.mode \in ReturnModes
        /\ last.r.result \in BOOLEAN
        /\ ~last.r.result => (OneWayFailed(last.r) \/ last.r.mode = "error")

C31_Witness ==
    /\ last.returned
    /\ last.r.mode = "bidirectional"
    /\ Len(last.r.calls) = 3
    /\ last.r.calls[2] = Call("copy_up", "", "timeout")
    /\ last.r.calls[3] = Call("sync", "", "timeout")
    /\ ~last.r.result

====
